---- MODULE Spec2Model ----
(***************************************************************************)
(* Model of composables/useRequest.ts (request facade: beforeFetch,        *)
(* onFetchError, messageResponse, useGet) and composables/useN3EG.ts       *)
(* (toggleable text state).                                                *)
(*                                                                         *)
(* JavaScript values are modelled as trees: a value is a set of nodes, one *)
(* node per (path, primitive) pair, the node at path <<>> being the value  *)
(* itself.  An object or an array is its root node plus the nodes of its   *)
(* members, each prefixed with the member's key (array indices are the     *)
(* keys "0", "1", ...).  A key whose value is undefined is a node of kind  *)
(* "undefined"; a key that is not set has no node at all.                  *)
(***************************************************************************)
EXTENDS Integers, Sequences, FiniteSets, TLC

VARIABLES
  ctx,       \* onFetchError: the context object {response, data, error}
  arg,       \* onFetchError: the context as it was when the hook was invoked
  pcFE,      \* onFetchError: "failed" (hook about to run), "returned", "raised"
  env,       \* beforeFetch: import.meta.env (MODE and the two tokens)
  options,   \* beforeFetch: the outgoing request options ({headers})
  sent,      \* beforeFetch: the options as they were before the hook ran
  pcBF,      \* beforeFetch: "pending", "done"
  text,      \* useN3EG: text.value
  calls,     \* useN3EG: the calls made so far, oldest first
  url,       \* useGet: the url argument (value or ref)
  query,     \* useGet: the query argument (value or ref)
  target,    \* useGet: the computed _url handed to useRequest
  pcGet,     \* useGet: "called", "requested"
  extracted, \* messageResponse: the value returned by a direct call
  pcMsg      \* messageResponse: "idle", "done"

vars == <<ctx, arg, pcFE, env, options, sent, pcBF, text, calls, url, query,
          target, pcGet, extracted, pcMsg>>

(***************************************************************************)
(* JavaScript values                                                       *)
(***************************************************************************)
Node(p, k, s, n) == [p |-> p, k |-> k, s |-> s, n |-> n]

Undefined == {Node(<<>>, "undefined", "", 0)}

Null == {Node(<<>>, "null", "", 0)}

Str(s) == {Node(<<>>, "string", s, 0)}

Num(n) == {Node(<<>>, "number", "", n)}

Bool(b) == {Node(<<>>, "boolean", IF b THEN "true" ELSE "false", 0)}

EmptyObj == {Node(<<>>, "object", "", 0)}

EmptyArr == {Node(<<>>, "array", "", 0)}

Root(v) == CHOOSE m \in v : m.p = <<>>

Kind(v) == Root(v).k

\* nodes of v re-rooted under key
Under(key, v) == {Node(<<key>> \o m.p, m.k, m.s, m.n) : m \in v}

\* o[key] = v  (assignment, or a member of an object literal)
Put(o, key, v) ==
  {m \in o : m.p = <<>> \/ Head(m.p) # key} \cup Under(key, v)

\* the array literal [items[1], items[2], ...]
ArrayOf(items) ==
  EmptyArr \cup UNION {Under(ToString(i - 1), items[i]) : i \in 1..Len(items)}

\* v == null (null or undefined): reading a property of it throws
Nullish(v) == Kind(v) \in {"undefined", "null"}

\* ToBoolean(v)
Truthy(v) ==
  CASE Kind(v) \in {"undefined", "null"} -> FALSE
    [] Kind(v) = "string" -> Root(v).s # ""
    [] Kind(v) = "number" -> Root(v).n # 0
    [] Kind(v) = "boolean" -> Root(v).s = "true"
    [] OTHER -> TRUE

\* a || b
Or(a, b) == IF Truthy(a) THEN a ELSE b

HasKey(v, key) == \E m \in v : m.p # <<>> /\ Head(m.p) = key

\* v[key] for a non-nullish v.  Indexing a string gives the one-character
\* string at that index; the hooks only ever read .msg and .loc of such a
\* character, which are undefined for every character, so the character
\* itself is kept abstract ("c").
Get(v, key) ==
  IF HasKey(v, key)
    THEN {Node(Tail(m.p), m.k, m.s, m.n) :
            m \in {x \in v : x.p # <<>> /\ Head(x.p) = key}}
    ELSE IF Kind(v) = "string" /\ key = "0" /\ Root(v).s # ""
      THEN Str("c")
      ELSE Undefined

\* v?.[key]
OptGet(v, key) == IF Nullish(v) THEN Undefined ELSE Get(v, key)

(***************************************************************************)
(* messageResponse                                                         *)
(***************************************************************************)
\* messageResponse with detail.msg tried before detail.message
messageResponseMsgFirst(c) ==
  IF ~Truthy(c.response) \/ ~Truthy(c.data)
    THEN Undefined
    ELSE IF Truthy(c.data) /\ Truthy(Get(c.data, "detail"))
      THEN LET detail == Get(c.data, "detail") IN
           Or(OptGet(OptGet(detail, "0"), "msg"),
              Or(Get(detail, "msg"),
                 Or(Get(detail, "message"), detail)))
      ELSE Or(Get(c.data, "message"), Or(Get(c.data, "msg"), c.data))

messageResponse(c) ==
  IF ~Truthy(c.response) \/ ~Truthy(c.data)
    THEN Undefined
    ELSE IF Truthy(c.data) /\ Truthy(Get(c.data, "detail"))
      THEN LET detail == Get(c.data, "detail") IN
           Or(OptGet(OptGet(detail, "0"), "msg"),
              Or(Get(detail, "message"),
                 Or(Get(detail, "msg"), detail)))
      ELSE Or(Get(c.data, "message"), Or(Get(c.data, "msg"), c.data))

(***************************************************************************)
(* onFetchError                                                            *)
(***************************************************************************)
Status(c) == Root(Get(c.response, "status")).n

\* the no-response literal with a raw member added
UnknownErrorWithRaw ==
  Put(Put(Put(Put(EmptyObj, "errorCode", Num(500)),
              "message", Str("Failed to load response data | Unknown Error")),
          "type", Str("unknown")),
      "raw", Undefined)

\* the object literal of the no-response branch
UnknownError ==
  Put(Put(Put(EmptyObj, "errorCode", Num(500)),
          "message", Str("Failed to load response data | Unknown Error")),
      "type", Str("unknown"))

\* {message, type}
ErrorOf(message, type) ==
  Put(Put(EmptyObj, "message", message), "type", Str(type))

\* evaluating the 422/400 branch reads ctx.data.detail without a guard
BranchRaises(c) ==
  /\ Status(c) = 422 \/ Status(c) = 400
  /\ Nullish(c.data)

\* the if / else-if chain; first matching branch wins
BranchError(c) ==
  IF Status(c) = 422 \/ Status(c) = 400
    THEN Put(ErrorOf(messageResponse(c), "fastapiError"), "location",
             Or(OptGet(OptGet(Get(c.data, "detail"), "0"), "loc"), Null))
  ELSE IF Status(c) = 404
    THEN Put(ErrorOf(Or(messageResponse(c), Str("Entity Not Found")),
                     "notFound"),
             "location", OptGet(OptGet(c.data, "detail"), "id"))
  ELSE IF Status(c) = 502
    THEN ErrorOf(Or(messageResponse(c), Str("Bad Gateway")), "serverError")
  ELSE IF Status(c) = 503
    THEN ErrorOf(Or(messageResponse(c),
                    Str("Service is not available right now.")),
                 "serverError")
  ELSE IF Status(c) = 504
    THEN ErrorOf(Or(messageResponse(c), Str("Gateway Timeout Error")),
                 "serverError")
  ELSE IF Status(c) = 500
    THEN Put(ErrorOf(Or(messageResponse(c),
       Str("Internal Server Error. The server unable to complete your request")),
                     "serverError"),
             "errorCode", Num(500))
  ELSE ErrorOf(Or(messageResponse(c), Str("Miscellaneous Error")), "others")

\* the trailing assignments without the one to ctx.error.endpoint
FinalizeNoEndpoint(c, e) ==
  Put(Put(e, "errorCode", Get(c.response, "status")), "raw", c.data)

\* the three trailing assignments to ctx.error
Finalize(c, e) ==
  Put(Put(Put(e, "errorCode", Get(c.response, "status")),
          "raw", c.data),
      "endpoint", Get(c.response, "url"))

\* the hook itself: returns ctx with ctx.error replaced, or raises the
\* TypeError of the unguarded read before anything is assigned
onFetchError ==
  /\ pcFE = "failed"
  /\ IF ~Truthy(ctx.response)
       THEN /\ ctx' = [ctx EXCEPT !.error = UnknownError]
            /\ pcFE' = "returned"
       ELSE \/ /\ BranchRaises(ctx)
               /\ ctx' = ctx
               /\ pcFE' = "raised"
            \/ /\ ~BranchRaises(ctx)
               /\ ctx' = [ctx EXCEPT !.error = Finalize(ctx, BranchError(ctx))]
               /\ pcFE' = "returned"
  /\ UNCHANGED <<arg, env, options, sent, pcBF, text, calls, url, query,
                 target, pcGet, extracted, pcMsg>>

\* a direct call messageResponse(ctx)
MessageResponse ==
  /\ pcMsg = "idle"
  /\ extracted' = messageResponse(ctx)
  /\ pcMsg' = "done"
  /\ UNCHANGED <<ctx, arg, pcFE, env, options, sent, pcBF, text, calls, url,
                 query, target, pcGet>>

(***************************************************************************)
(* Failure contexts handed to the hook                                     *)
(***************************************************************************)
MaxErrors == 2

\* the objects of S, each with key left out or set to one of vals
Expand(S, key, vals) ==
  UNION {{o} \cup {Put(o, key, v) : v \in vals} : o \in S}

Loc == ArrayOf(<<Str("body"), Str("name")>>)

\* one validation error {msg?, loc?}
ErrorEntries ==
  Expand(Expand({EmptyObj}, "msg", {Str("field required"), Str("")}),
         "loc", {Loc})

DetailArrays ==
  {ArrayOf(s) : s \in UNION {[1..n -> ErrorEntries] : n \in 0..MaxErrors}}

DetailObjects ==
  Expand(Expand(Expand({EmptyObj}, "message", {Str("dm")}),
                "msg", {Str("dmsg")}),
         "id", {Num(7)})

Details ==
  {Null, Str(""), Str("Not Found")} \cup DetailArrays \cup DetailObjects

\* response bodies as decoded (or not) by the fetch engine
Bodies ==
  {Undefined, Null, Str(""), Str("oops"), Num(0), Bool(FALSE)} \cup
  Expand(Expand(Expand({EmptyObj}, "detail", Details),
                "message", {Str("m"), Str("")}),
         "msg", {Str("teapot")})

Statuses == {400, 401, 404, 418, 422, 500, 502, 503, 504}

Urls == {"http://localhost:5000/items/1", "https://example.org/api"}

ResponseOf(status, u) ==
  Put(Put(EmptyObj, "status", Num(status)), "url", Str(u))

Responses ==
  {Undefined} \cup {ResponseOf(st, u) : st \in Statuses, u \in Urls}

\* the error raised by the fetch engine, in ctx.error when the hook starts
FetchErrors ==
  {Put(EmptyObj, "message", Str("Failed to fetch")),
   Put(EmptyObj, "message", Str("Unprocessable Entity"))}

Contexts == [response : Responses, data : Bodies, error : FetchErrors]

(***************************************************************************)
(* beforeFetch                                                             *)
(***************************************************************************)
\* Object.assign(options.headers || {}, {[name]: value})
AssignHeader(o, name, value) ==
  Put(o, "headers", Put(Or(Get(o, "headers"), EmptyObj), name, value))

WithGitlabToken(e, o) ==
  IF Truthy(e.VITE_BASF_GITLAB_TOKEN)
    THEN AssignHeader(o, "X-Gitlab-Token", e.VITE_BASF_GITLAB_TOKEN)
    ELSE o

WithAccessToken(e, o) ==
  IF Truthy(e.VITE_BASF_FEDERATION_ACCESS_TOKEN)
    THEN AssignHeader(o, "Authorization",
           Str("Bearer " \o Root(e.VITE_BASF_FEDERATION_ACCESS_TOKEN).s))
    ELSE o

\* beforeFetch without the test of env.MODE
beforeFetchOptionsAnyMode(e, o) == WithAccessToken(e, WithGitlabToken(e, o))

\* the options object the hook returns
beforeFetchOptions(e, o) ==
  IF e.MODE = "development"
    THEN WithAccessToken(e, WithGitlabToken(e, o))
    ELSE o

beforeFetch ==
  /\ pcBF = "pending"
  /\ options' = beforeFetchOptions(env, options)
  /\ pcBF' = "done"
  /\ UNCHANGED <<ctx, arg, pcFE, env, sent, text, calls, url, query, target,
                 pcGet, extracted, pcMsg>>

Modes == {"development", "production", "test"}

Tokens == {Undefined, Str(""), Str("glpat-1"), Str("eyJ0")}

Envs ==
  [MODE : Modes, VITE_BASF_GITLAB_TOKEN : Tokens,
   VITE_BASF_FEDERATION_ACCESS_TOKEN : Tokens]

JsonHeaders == Put(EmptyObj, "Content-Type", Str("application/json"))

HeaderSets ==
  {EmptyObj, JsonHeaders,
   Put(JsonHeaders, "Authorization", Str("Basic b2xk")),
   Put(JsonHeaders, "X-Gitlab-Token", Str("stale"))}

\* request options: with or without a headers member
RequestOptions ==
  LET base == {Put(EmptyObj, "method", Str(m)) : m \in {"GET", "POST"}}
  IN  base \cup {Put(o, "headers", h) : o \in base, h \in HeaderSets}

(***************************************************************************)
(* useN3EG                                                                 *)
(***************************************************************************)
MaxCalls == 4

TextValues == {"hello", "", "N3EG"}

edit(value) ==
  /\ Len(calls) < MaxCalls
  /\ text' = value
  /\ calls' = Append(calls, [op |-> "edit", value |-> value])
  /\ UNCHANGED <<ctx, arg, pcFE, env, options, sent, pcBF, url, query, target,
                 pcGet, extracted, pcMsg>>

\* reset that leaves text.value alone
resetKeepsText ==
  /\ Len(calls) < MaxCalls
  /\ text' = text
  /\ calls' = Append(calls, [op |-> "reset", value |-> ""])
  /\ UNCHANGED <<ctx, arg, pcFE, env, options, sent, pcBF, url, query, target,
                 pcGet, extracted, pcMsg>>

reset ==
  /\ Len(calls) < MaxCalls
  /\ text' = "N3EG"
  /\ calls' = Append(calls, [op |-> "reset", value |-> ""])
  /\ UNCHANGED <<ctx, arg, pcFE, env, options, sent, pcBF, url, query, target,
                 pcGet, extracted, pcMsg>>

Edit == \E value \in TextValues : edit(value)

(***************************************************************************)
(* useGet                                                                  *)
(***************************************************************************)
\* a MaybeRef argument: the value itself or a ref holding it
unref(r) == r.value

\* isObject of @vueuse/core: plain objects only (not arrays, not null)
isObject(v) == Kind(v) = "object"

ArrayLength(v) == Cardinality({m.p[1] : m \in {x \in v : x.p # <<>>}})

RECURSIVE JsString(_)
\* String(v), as applied by a template literal
JsString(v) ==
  LET Item(i) == IF Nullish(Get(v, ToString(i))) THEN ""
                 ELSE JsString(Get(v, ToString(i)))
      Join[i \in 0..ArrayLength(v)] ==
        IF i = ArrayLength(v) THEN ""
        ELSE IF i = ArrayLength(v) - 1 THEN Item(i)
        ELSE Item(i) \o "," \o Join[i + 1]
  IN  CASE Kind(v) = "string" -> Root(v).s
        [] Kind(v) = "number" -> ToString(Root(v).n)
        [] Kind(v) = "boolean" -> Root(v).s
        [] Kind(v) = "undefined" -> "undefined"
        [] Kind(v) = "null" -> "null"
        [] Kind(v) = "array" -> Join[0]
        [] OTHER -> "[object Object]"

\* keys of the query objects, in the order the objects were built with
QueryKeys == <<"a", "b">>

\* encodeQueryValue of vue-router on the texts used here: a space becomes
\* "+", an ampersand "%26", unreserved characters are kept
encodeQueryValue(v) ==
  LET t == JsString(v)
  IN  CASE t = "a b" -> "a+b"
        [] t = "x&y" -> "x%26y"
        [] OTHER -> t

\* stringifyQuery of vue-router: key=value pairs joined by "&"; a null value
\* gives the bare key, an undefined value is skipped, an array repeats the key
stringifyQuery(q) ==
  LET \* v && encodeQueryValue(v)
      Enc(v) == IF Truthy(v) THEN Str(encodeQueryValue(v)) ELSE v
      Sep(search) == IF search # "" THEN "&" ELSE ""
      \* the forEach body for one (already encoded) value
      Add(search, key, v) ==
        IF Kind(v) = "undefined" THEN search
        ELSE search \o Sep(search) \o key \o
             (IF Nullish(v) THEN "" ELSE "=" \o JsString(v))
      OfArray(search, key, value) ==
        LET F[i \in 0..ArrayLength(value)] ==
              IF i = 0 THEN search
              ELSE Add(F[i - 1], key, Enc(Get(value, ToString(i - 1))))
        IN  F[ArrayLength(value)]
      OfKey(search, key) ==
        LET value == Get(q, key)
        IN  IF ~HasKey(q, key) THEN search
            ELSE IF Nullish(value)
              THEN IF Kind(value) = "null"
                     THEN search \o Sep(search) \o key
                     ELSE search
            ELSE IF Kind(value) = "array" THEN OfArray(search, key, value)
            ELSE Add(search, key, Enc(value))
      G[i \in 0..Len(QueryKeys)] ==
        IF i = 0 THEN "" ELSE OfKey(G[i - 1], QueryKeys[i])
  IN  G[Len(QueryKeys)]

\* the computed _url
getUrl(u, q) ==
  LET _url == unref(u)
      _query == unref(q)
      queryString == IF isObject(_query) THEN Str(stringifyQuery(_query))
                     ELSE Or(_query, Str(""))
  IN  JsString(_url) \o (IF Truthy(queryString) THEN "?" ELSE "")
        \o JsString(queryString)

useGet ==
  /\ pcGet = "called"
  /\ target' = getUrl(url, query)
  /\ pcGet' = "requested"
  /\ UNCHANGED <<ctx, arg, pcFE, env, options, sent, pcBF, text, calls, url,
                 query, extracted, pcMsg>>

QueryValues ==
  {Undefined, Null, Num(1), Str("x"), Str("a b"), Str(""),
   ArrayOf(<<Str("x"), Str("y")>>)}

QueryObjects == Expand(Expand({EmptyObj}, "a", QueryValues), "b", QueryValues)

Queries ==
  {Undefined, Null, Str(""), Str("a=1"), Num(0), Num(5), Bool(TRUE), EmptyArr,
   ArrayOf(<<Num(1), Num(2)>>)} \cup QueryObjects

GetUrls == {"/items", "https://example.org/api", ""}

MaybeRefs(S) == [ref : BOOLEAN, value : S]

(***************************************************************************)
(* Specifications: the units are independent, one specification each       *)
(***************************************************************************)
IdleContext ==
  [response |-> Undefined, data |-> Undefined,
   error |-> Put(EmptyObj, "message", Str("Failed to fetch"))]

IdleEnv ==
  [MODE |-> "production", VITE_BASF_GITLAB_TOKEN |-> Undefined,
   VITE_BASF_FEDERATION_ACCESS_TOKEN |-> Undefined]

IdleFetchError ==
  /\ ctx = IdleContext /\ arg = IdleContext /\ pcFE = "failed"
  /\ extracted = Undefined /\ pcMsg = "idle"

IdleBeforeFetch ==
  /\ env = IdleEnv /\ options = EmptyObj /\ sent = EmptyObj
  /\ pcBF = "pending"

IdleText == text = "N3EG" /\ calls = <<>>

IdleGet ==
  /\ url = [ref |-> FALSE, value |-> Str("")]
  /\ query = [ref |-> FALSE, value |-> Undefined]
  /\ target = "" /\ pcGet = "called"

\* a request has failed and the fetch engine is about to run the hook
Init ==
  /\ ctx \in Contexts /\ arg = ctx /\ pcFE = "failed"
  /\ extracted = Undefined /\ pcMsg = "idle"
  /\ IdleBeforeFetch /\ IdleText /\ IdleGet

Next == onFetchError \/ MessageResponse

Spec == Init /\ [][Next]_vars

\* a request is about to be sent
InitBeforeFetch ==
  /\ env \in Envs /\ options \in RequestOptions /\ sent = options
  /\ pcBF = "pending"
  /\ IdleFetchError /\ IdleText /\ IdleGet

NextBeforeFetch == beforeFetch

SpecBeforeFetch == InitBeforeFetch /\ [][NextBeforeFetch]_vars

\* the state right after useN3EG() has run
InitText == IdleText /\ IdleFetchError /\ IdleBeforeFetch /\ IdleGet

NextText == Edit \/ reset

SpecText == InitText /\ [][NextText]_vars

\* useGet(url, query) has been called with these arguments
InitGet ==
  /\ url \in MaybeRefs({Str(u) : u \in GetUrls})
  /\ query \in MaybeRefs(Queries)
  /\ target = "" /\ pcGet = "called"
  /\ IdleFetchError /\ IdleBeforeFetch /\ IdleText

NextGet == useGet

SpecGet == InitGet /\ [][NextGet]_vars

(***************************************************************************)
(* Properties                                                              *)
(***************************************************************************)
\* the value found in v under the keys of path, undefined when there is none
At(v, path) ==
  LET sub == {m \in v : /\ Len(m.p) >= Len(path)
                        /\ SubSeq(m.p, 1, Len(path)) = path}
  IN  IF sub = {} THEN Undefined
      ELSE {Node(SubSeq(m.p, Len(path) + 1, Len(m.p)), m.k, m.s, m.n) :
              m \in sub}

Defined(v) == Kind(v) # "undefined"

ErrorTypes == {"fastapiError", "notFound", "serverError", "unknown", "others"}

IsErrorDetails(e) ==
  /\ Kind(e) = "object"
  /\ At(e, <<"type">>) \in {Str(t) : t \in ErrorTypes}
  /\ HasKey(e, "message")

HasResponse == Kind(arg.response) = "object"

ArgStatus == Root(At(arg.response, <<"status">>)).n

\* C1 (as stated): every invocation of onFetchError, whichever branch it
\* takes, leaves one ErrorDetails in ctx.error with both errorCode and
\* endpoint defined.
C1_EveryBranchHasEndpoint ==
  pcFE # "failed" =>
    /\ IsErrorDetails(ctx.error)
    /\ Defined(At(ctx.error, <<"errorCode">>))
    /\ Defined(At(ctx.error, <<"endpoint">>))

\* C1 (amended): when onFetchError returns, ctx.error is one ErrorDetails
\* with errorCode defined, and endpoint is defined exactly when there is a
\* response object; when it raises (status 400 or 422 with a null or
\* undefined body), ctx.error still holds the fetch engine's error.
C1_EndpointIffResponse ==
  /\ pcFE = "returned" =>
       /\ IsErrorDetails(ctx.error)
       /\ Kind(At(ctx.error, <<"errorCode">>)) = "number"
       /\ Defined(At(ctx.error, <<"endpoint">>)) <=> HasResponse
  /\ pcFE = "raised" =>
       /\ HasResponse /\ ArgStatus \in {400, 422}
       /\ Kind(arg.data) \in {"null", "undefined"}
       /\ ctx.error = arg.error

C1_Witness ==
  /\ pcFE = "returned" /\ ~HasResponse
  /\ At(ctx.error, <<"errorCode">>) = Num(500)
  /\ ~HasKey(ctx.error, "endpoint")

\* C2: onFetchError never raises: for every failure context it completes
\* and returns the context with ctx.error set to an ErrorDetails, also for
\* status 422 or 400 with an absent body.
C2_NeverRaises ==
  pcFE # "failed" => pcFE = "returned" /\ IsErrorDetails(ctx.error)

FallbackOf500 ==
  "Internal Server Error. The server unable to complete your request"

\* C3: status 404 with body {} gives type notFound, message "Entity Not
\* Found", errorCode 404; status 500 with body {} gives type serverError,
\* errorCode 500 and the fixed fallback message.
C3_EmptyBodyFallback ==
  (pcFE # "failed" /\ HasResponse /\ arg.data = EmptyObj) =>
    /\ ArgStatus = 404 =>
         /\ At(ctx.error, <<"type">>) = Str("notFound")
         /\ At(ctx.error, <<"message">>) = Str("Entity Not Found")
         /\ At(ctx.error, <<"errorCode">>) = Num(404)
    /\ ArgStatus = 500 =>
         /\ At(ctx.error, <<"type">>) = Str("serverError")
         /\ At(ctx.error, <<"message">>) = Str(FallbackOf500)
         /\ At(ctx.error, <<"errorCode">>) = Num(500)

TypeOfStatus ==
  IF ~HasResponse THEN "unknown"
  ELSE IF ArgStatus \in {422, 400} THEN "fastapiError"
  ELSE IF ArgStatus = 404 THEN "notFound"
  ELSE IF ArgStatus \in {502, 503, 504, 500} THEN "serverError"
  ELSE "others"

\* C4: for every input the hook produces exactly one error type, the one
\* its response status selects: no response unknown, 422/400 fastapiError,
\* 404 notFound, 502/503/504/500 serverError, anything else others.
C4_TypeByStatus ==
  pcFE # "failed" => At(ctx.error, <<"type">>) = Str(TypeOfStatus)

\* C5: without a response object the error is exactly {errorCode: 500,
\* type: "unknown", message: "Failed to load response data | Unknown
\* Error"}, no other field, whatever ctx.data and the prior ctx.error were.
C5_NoResponseExact ==
  (pcFE # "failed" /\ ~HasResponse) =>
    /\ pcFE = "returned"
    /\ ctx.error =
         {Node(<<>>, "object", "", 0),
          Node(<<"errorCode">>, "number", "", 500),
          Node(<<"type">>, "string", "unknown", 0),
          Node(<<"message">>, "string",
               "Failed to load response data | Unknown Error", 0)}
    /\ ctx.data = arg.data /\ ctx.response = arg.response

C5_Witness ==
  /\ pcFE = "returned" /\ ~HasResponse
  /\ Kind(arg.data) = "object" /\ HasKey(arg.data, "detail")
  /\ arg.error # ctx.error
  /\ At(ctx.error, <<"type">>) = Str("unknown")

\* C6: whenever a response object exists, the error's errorCode is the
\* response status, raw is the response body and endpoint is the response
\* url, for every status.
C6_StatusRawEndpoint ==
  (pcFE # "failed" /\ HasResponse) =>
    /\ At(ctx.error, <<"errorCode">>) = At(arg.response, <<"status">>)
    /\ At(ctx.error, <<"raw">>) = arg.data
    /\ At(ctx.error, <<"endpoint">>) = At(arg.response, <<"url">>)

Development == env.MODE = "development"

\* the nodes of an options object outside headers[name], the headers
\* object's own node left aside
Besides(o, names) ==
  {m \in o : ~(\/ m.p = <<"headers">>
               \/ (Len(m.p) >= 2 /\ m.p[1] = "headers" /\ m.p[2] \in names))}

\* C7: beforeFetch sets X-Gitlab-Token exactly when the mode is development
\* and the Gitlab token is present (non-empty), and Authorization: Bearer
\* <token> exactly when the mode is development and the bearer token is
\* present, each independently of the other; outside development mode the
\* options are left as they were.
C7_HeadersOnlyInDevelopment ==
  pcBF = "done" =>
    LET gitlab == env.VITE_BASF_GITLAB_TOKEN
        bearer == env.VITE_BASF_FEDERATION_ACCESS_TOKEN
        addGitlab == Development /\ gitlab \notin {Undefined, Str("")}
        addBearer == Development /\ bearer \notin {Undefined, Str("")}
    IN  /\ At(options, <<"headers", "X-Gitlab-Token">>) =
             IF addGitlab THEN gitlab
             ELSE At(sent, <<"headers", "X-Gitlab-Token">>)
        /\ At(options, <<"headers", "Authorization">>) =
             IF addBearer THEN Str("Bearer " \o Root(bearer).s)
             ELSE At(sent, <<"headers", "Authorization">>)
        /\ Besides(options, {"X-Gitlab-Token", "Authorization"}) =
             Besides(sent, {"X-Gitlab-Token", "Authorization"})
        /\ (~addGitlab /\ ~addBearer) => options = sent
        /\ ~Development => options = sent

C7_Witness ==
  /\ pcBF = "done" /\ Development
  /\ env.VITE_BASF_GITLAB_TOKEN = Str("glpat-1")
  /\ env.VITE_BASF_FEDERATION_ACCESS_TOKEN = Undefined
  /\ ~HasKey(sent, "headers")
  /\ At(options, <<"headers", "X-Gitlab-Token">>) = Str("glpat-1")
  /\ At(options, <<"headers", "Authorization">>) = Undefined

\* C8: the text is "N3EG" before any call; after any sequence of edit and
\* reset calls it is the argument of the last edit when the last call was
\* an edit, and "N3EG" when the last call was a reset (so edit("hello")
\* then reset() leaves "N3EG", and a second reset changes nothing).
C8_TextFollowsLastCall ==
  text = IF calls = <<>> \/ calls[Len(calls)].op = "reset"
           THEN "N3EG"
           ELSE calls[Len(calls)].value

C8_Witness ==
  /\ Len(calls) >= 2
  /\ calls[Len(calls) - 1] = [op |-> "edit", value |-> "hello"]
  /\ calls[Len(calls)].op = "reset"
  /\ text = "N3EG"

\* the query argument as the text that ends up in the URL
QueryText ==
  LET q == query.value
  IN  IF Kind(q) = "object" THEN stringifyQuery(q)
      ELSE IF Truthy(q) THEN JsString(q) ELSE ""

\* C9: the URL useGet requests is the resolved url followed by "?" and the
\* query string exactly when the query string is non-empty, and the
\* resolved url alone when the query is absent, falsy or serializes to the
\* empty string.
C9_QuestionMarkIffQuery ==
  pcGet = "requested" =>
    target = IF QueryText # ""
               THEN Root(url.value).s \o "?" \o QueryText
               ELSE Root(url.value).s

\* the first truthy value of vals, its last one when there is none
FirstAvailable(vals) ==
  LET hits == {i \in 1..Len(vals) : Truthy(vals[i])}
  IN  IF hits = {} THEN vals[Len(vals)]
      ELSE vals[CHOOSE i \in hits : \A j \in hits : i <= j]

FieldRequiredBody ==
  {Node(<<>>, "object", "", 0),
   Node(<<"detail">>, "array", "", 0),
   Node(<<"detail", "0">>, "object", "", 0),
   Node(<<"detail", "0", "msg">>, "string", "field required", 0),
   Node(<<"detail", "0", "loc">>, "array", "", 0),
   Node(<<"detail", "0", "loc", "0">>, "string", "body", 0),
   Node(<<"detail", "0", "loc", "1">>, "string", "name", 0)}

\* C10: messageResponse returns undefined without a response or without a
\* body; with a detail in the body it returns the first available (truthy)
\* of detail[0].msg, detail.message, detail.msg, and else detail itself;
\* without one the first available of body.message, body.msg, and else the
\* body itself.  Status 422 with body {detail: [{msg: "field required",
\* loc: ["body", "name"]}]} gives the error message "field required".
C10_MessagePriority ==
  /\ pcMsg = "done" =>
       LET body == arg.data
           detail == At(body, <<"detail">>)
       IN  extracted =
             IF ~HasResponse \/ ~Truthy(body) THEN Undefined
             ELSE IF Truthy(detail)
               THEN FirstAvailable(<<At(body, <<"detail", "0", "msg">>),
                                     At(body, <<"detail", "message">>),
                                     At(body, <<"detail", "msg">>),
                                     detail>>)
               ELSE FirstAvailable(<<At(body, <<"message">>),
                                     At(body, <<"msg">>),
                                     body>>)
  /\ (pcFE # "failed" /\ HasResponse /\ ArgStatus = 422
        /\ arg.data = FieldRequiredBody) =>
       At(ctx.error, <<"message">>) = Str("field required")

C10_Witness ==
  /\ pcMsg = "done" /\ pcFE = "returned"
  /\ HasResponse /\ ArgStatus = 422 /\ arg.data = FieldRequiredBody
  /\ extracted = Str("field required")

====
